---- MODULE Spec2Model ----
(***************************************************************************)
(* DAPjs transport layer: the HID backend (node-hid) and the USB backend   *)
(* (node-usb) behind the Transport contract {open, close, read, write}.    *)
(*                                                                         *)
(* One behaviour follows one transport instance (HID or USB) through any   *)
(* sequence of calls.  Calls are serialised by the caller: a new call is   *)
(* issued only when no driver callback is outstanding.  The native drivers *)
(* are opaque: what they report (success, an error value, a thrown         *)
(* exception, the interface list, the packet read) is drawn                *)
(* nondeterministically from small sets.                                   *)
(***************************************************************************)
EXTENDS Integers, Sequences, FiniteSets, TLC

VARIABLES
    backend,        \* "HID" or "USB": the class of the instance under test
    os,             \* HID.os = platform()
    path,           \* HID.path (constructor argument)
    hidDevice,      \* HID.device: 0 is null, otherwise a driver handle id
    hidLive,        \* driver side: HID handles constructed and not yet closed
    interfaceClass, \* USB.interfaceClass (constructor argument)
    devOpen,        \* driver side: whether the USB device handle is open
    iface,          \* USB.interface
    endpointIn,     \* USB.endpointIn
    endpointOut,    \* USB.endpointOut
    call,           \* the call in progress, or the last call made
    pend,           \* the driver call whose completion callback is outstanding
    session,        \* history: "open" from a resolved open to the next close call
    fixed,          \* history: TRUE from a resolved open to the next open or close call
    sessMode,       \* history: the dispatch decided by the last resolved USB open
    writeSeq,       \* history: number of write calls made so far
    submitted,      \* driver side: per write submission, the number of the write call it came from
    uncaught        \* an exception escaped a driver callback

vars == << backend, os, path, hidDevice, hidLive, interfaceClass, devOpen, iface,
           endpointIn, endpointOut, call, pend, session, fixed, sessMode,
           writeSeq, submitted, uncaught >>

hidVars == << hidDevice, hidLive >>
usbVars == << devOpen, iface, endpointIn, endpointOut >>
ctorVars == << backend, os, path, interfaceClass >>

-----------------------------------------------------------------------------
(* Program constants *)

PACKET_SIZE == 64
DEFAULT_CLASS == 255

GET_REPORT == 1
SET_REPORT == 9
OUT_REPORT == 512
IN_REPORT == 256

LIBUSB_REQUEST_TYPE_CLASS == 32
LIBUSB_RECIPIENT_INTERFACE == 1
LIBUSB_ENDPOINT_IN == 128
LIBUSB_ENDPOINT_OUT == 0

(* Bounds of the model *)

MaxShort == 2       \* payload buffers of 0..MaxShort bytes, and
MaxNear == 1        \* of every length within MaxNear of a packet size (framing specification)
MaxCallLen == 1     \* longest underlying buffer of a payload (life-cycle specification)
MaxFrameWrites == 1 \* most write calls in a behaviour of the framing specification
MaxOff == 1         \* largest byteOffset of a view
MaxTrim == 1        \* most bytes a view leaves out at the end of its buffer
MaxIfaces == 2      \* most interfaces a device reports
MaxEndpoints == 2   \* most endpoints an interface declares
EpBase == 8         \* wMaxPacketSize of the k-th endpoint of interface i is k * EpBase + i
MaxHandles == 2     \* most HID handles alive at once
MaxWrites == 2      \* most write calls in a behaviour
OtherClass == 3     \* an interface class other than the default (HID class)

-----------------------------------------------------------------------------
(* Inputs *)

Min(a, b) == IF a < b THEN a ELSE b

Platforms == {"win32", "linux", "darwin"}
Paths == {"", "/dev/hidraw0"}
Classes == {DEFAULT_CLASS, OtherClass}
Directions == {"in", "out"}
\* Error values a driver passes to a completion callback, and the exception a
\* driver call throws when it fails before it returns.
Errors == {"LIBUSB_ERROR_IO", "LIBUSB_TRANSFER_STALL"}
Thrown == {"LIBUSB_ERROR_NO_DEVICE"}
NoError == "none"

\* The bytes 1, 2, ..., n.
Pattern(n) == [i \in 1..n |-> i % 256]

\* A BufferSource: an ArrayBuffer (isView = FALSE, the window is the whole buffer)
\* or an ArrayBufferView over `buffer` with a byteOffset and a byteLength.
ArrayBufferOf(n) ==
    [buffer |-> Pattern(n), isView |-> FALSE, byteOffset |-> 0, byteLength |-> n]

ViewOf(n, off, len) ==
    [buffer |-> Pattern(n), isView |-> TRUE, byteOffset |-> off, byteLength |-> len]

\* The windows (byteOffset, trailing bytes left out) a view takes over n bytes.
Windows(n) == { w \in (0..MaxOff) \X (0..MaxTrim) : w[1] + w[2] <= n }

PayloadsOver(lengths) ==
    { ArrayBufferOf(n) : n \in lengths }
    \cup UNION { { ViewOf(n, w[1], n - w[1] - w[2]) : w \in Windows(n) } : n \in lengths }

\* Buffer lengths of the framing specification: the short ones and those around
\* the packet sizes in use (an endpoint's wMaxPacketSize, PACKET_SIZE).
FrameLengths ==
    (0..MaxShort)
    \cup { p + d : p \in {EpBase, PACKET_SIZE}, d \in (0 - MaxNear)..MaxNear }

Payloads == PayloadsOver(FrameLengths)
CallPayloads == { ArrayBufferOf(n) : n \in 0..MaxCallLen }

NoData == ArrayBufferOf(0)

\* The bytes a payload stands for: the window of a view, the whole of an ArrayBuffer.
PayloadBytes(data) ==
    SubSeq(data.buffer, data.byteOffset + 1, data.byteOffset + data.byteLength)

\* Packets a driver may hand back from a read.
ReadPackets == { Pattern(2), Pattern(PACKET_SIZE) }

\* Interface and endpoint descriptors as the driver reports them.
NullEp == [idx |-> 0, direction |-> "none", wMaxPacketSize |-> 0]
NullIface == [bInterfaceClass |-> 0, interface |-> -1, endpoints |-> <<>>]

\* The endpoints of interface number i, with the given directions in declaration order.
MkEndpoints(dirs, i) ==
    [k \in 1..Len(dirs) |->
        [idx |-> k, direction |-> dirs[k], wMaxPacketSize |-> k * EpBase + i]]

EpLists == UNION { [1..n -> Directions] : n \in 0..MaxEndpoints }
ClassLists == UNION { [1..n -> Classes] : n \in 0..MaxIfaces }

\* A device: interfaces numbered from 0 in declaration order, of the given
\* classes, each declaring endpoints of the given directions.
MkDevice(classes, dirs) ==
    [k \in 1..Len(classes) |->
        [bInterfaceClass |-> classes[k], interface |-> k - 1,
         endpoints |-> MkEndpoints(dirs, k - 1)]]

Devices == { MkDevice(cs, ds) : cs \in ClassLists, ds \in EpLists }

-----------------------------------------------------------------------------
(* Buffer conversions *)

\* isView(source) ? source.buffer : source -- the ArrayBuffer a BufferSource rests on.
\* A view contributes its whole underlying buffer, whatever its window.
SourceBuffer(source) ==
    IF source.isView THEN source.buffer ELSE PayloadBytes(source)

\* while (array.length < PACKET_SIZE) array.push(0)
PadToPacket(array) ==
    IF Len(array) < PACKET_SIZE
    THEN array \o [i \in 1..(PACKET_SIZE - Len(array)) |-> 0]
    ELSE array

\* HID.write, from the BufferSource to the array handed to device.write.
HIDFramePrependFirst(data, platform) ==
    PadToPacket(IF platform = "win32" THEN <<0>> \o SourceBuffer(data)
                ELSE SourceBuffer(data))

HIDFrame(data, platform) ==
    LET array == PadToPacket(SourceBuffer(data))
    IN  IF platform = "win32" THEN <<0>> \o array ELSE array

\* ArrayBuffer.prototype.slice(begin): the bytes from index begin to the end.
SliceFrom(arrayBuffer, begin) ==
    SubSeq(arrayBuffer, Min(begin, Len(arrayBuffer)) + 1, Len(arrayBuffer))

\* USB.sliceBuffer: the result is an ArrayBuffer.
SliceBuffer(data, packetSize) ==
    LET arrayBuffer == SourceBuffer(data)
        length == Min(Len(arrayBuffer), packetSize)
        sliced == SliceFrom(arrayBuffer, length)
    IN  [buffer |-> sliced, isView |-> FALSE, byteOffset |-> 0, byteLength |-> Len(sliced)]

\* USB.bufferSourceToBuffer: a Buffer over the source's ArrayBuffer.
BufferSourceToBuffer(bufferSource) == SourceBuffer(bufferSource)

\* USB.bufferToDataView: a DataView over a fresh copy of the Buffer's bytes.
BufferToDataView(buffer) ==
    [byteOffset |-> 0, byteLength |-> Len(buffer), bytes |-> buffer]

\* HID.read's wrapping: new DataView(new Uint8Array(data).buffer), each number
\* stored as a byte.
NumbersToDataView(data) ==
    [byteOffset |-> 0, byteLength |-> Len(data), bytes |-> [i \in 1..Len(data) |-> data[i] % 256]]

NoView == [byteOffset |-> 0, byteLength |-> 0, bytes |-> <<>>]

-----------------------------------------------------------------------------
(* Driver calls and promises *)

\* One call made on a native driver object, with the arguments that matter.
DrvCall(fn) ==
    [fn |-> fn, bmRequestType |-> 0, bRequest |-> 0, wValue |-> 0, wIndex |-> 0,
     length |-> 0, ep |-> 0, buf |-> <<>>]

EndpointTransferIn(ep) ==
    [DrvCall("endpointIn.transfer") EXCEPT !.ep = ep.idx, !.length = ep.wMaxPacketSize]

EndpointTransferOut(ep, buffer) ==
    [DrvCall("endpointOut.transfer") EXCEPT !.ep = ep.idx, !.buf = buffer,
                                            !.length = Len(buffer)]

ControlTransferInAsSetReport(interface) ==
    [DrvCall("device.controlTransfer") EXCEPT
        !.bmRequestType = LIBUSB_ENDPOINT_IN + LIBUSB_REQUEST_TYPE_CLASS
                          + LIBUSB_RECIPIENT_INTERFACE,
        !.bRequest = SET_REPORT, !.wValue = OUT_REPORT,
        !.wIndex = interface.interface, !.length = PACKET_SIZE]

ControlTransferIn(interface) ==
    [DrvCall("device.controlTransfer") EXCEPT
        !.bmRequestType = LIBUSB_ENDPOINT_IN + LIBUSB_REQUEST_TYPE_CLASS
                          + LIBUSB_RECIPIENT_INTERFACE,
        !.bRequest = GET_REPORT, !.wValue = IN_REPORT,
        !.wIndex = interface.interface, !.length = PACKET_SIZE]

ControlTransferOut(interface, buffer) ==
    [DrvCall("device.controlTransfer") EXCEPT
        !.bmRequestType = LIBUSB_ENDPOINT_OUT + LIBUSB_REQUEST_TYPE_CLASS
                          + LIBUSB_RECIPIENT_INTERFACE,
        !.bRequest = SET_REPORT, !.wValue = OUT_REPORT,
        !.wIndex = interface.interface, !.buf = buffer, !.length = Len(buffer)]

\* The fields of the instance.
Instance ==
    [device |-> hidDevice, interface |-> iface,
     endpointIn |-> endpointIn, endpointOut |-> endpointOut]

\* A call as the caller sees it: the promise it returned (result, error, view,
\* settles = how often resolve or reject was invoked) and what it did to the
\* driver (drv), with the history the properties speak about.
NoCall ==
    [op |-> "none", data |-> NoData, seq |-> 0, wasClosed |-> TRUE, wasFixed |-> FALSE,
     pre |-> [device |-> 0, interface |-> NullIface,
              endpointIn |-> NullEp, endpointOut |-> NullEp],
     mode |-> "none", drv |-> <<>>, matching |-> -1, reported |-> <<>>,
     returned |-> <<>>, drvError |-> NoError,
     result |-> "pending", error |-> NoError, view |-> NoView, settles |-> 0]

NewCall(op, data) ==
    [NoCall EXCEPT !.op = op, !.data = data, !.wasClosed = (session = "closed"),
                   !.wasFixed = fixed]

\* The call, with the instance's fields as they were when it was made.
Snap(c) == [c EXCEPT !.pre = Instance]

\* resolve(view) and reject(error): only the first of them settles the promise.
RejectWrapped(c, error) ==
    IF c.result = "pending"
    THEN [c EXCEPT !.result = "rejected", !.error = "Error: transfer failed", !.settles = @ + 1]
    ELSE [c EXCEPT !.settles = @ + 1]

Resolve(c, view) ==
    IF c.result = "pending"
    THEN [c EXCEPT !.result = "resolved", !.view = view, !.settles = @ + 1]
    ELSE [c EXCEPT !.settles = @ + 1]

Reject(c, error) ==
    IF c.result = "pending"
    THEN [c EXCEPT !.result = "rejected", !.error = error, !.settles = @ + 1]
    ELSE [c EXCEPT !.settles = @ + 1]

\* A driver call made by the call c.
IssueTwice(c, drvCall) == [c EXCEPT !.drv = Append(Append(@, drvCall), drvCall)]

Issue(c, drvCall) == [c EXCEPT !.drv = Append(@, drvCall)]

-----------------------------------------------------------------------------
(* Initial state: a freshly constructed instance *)

Init ==
    /\ backend \in {"HID", "USB"}
    /\ os \in (IF backend = "HID" THEN Platforms ELSE {"linux"})
    /\ path \in (IF backend = "HID" THEN Paths ELSE {""})
    /\ interfaceClass \in (IF backend = "USB" THEN Classes ELSE {DEFAULT_CLASS})
    /\ hidDevice = 0
    /\ hidLive = {}
    /\ devOpen = FALSE
    /\ iface = NullIface
    /\ endpointIn = NullEp
    /\ endpointOut = NullEp
    /\ call = NoCall
    /\ pend = "none"
    /\ session = "closed"
    /\ fixed = FALSE
    /\ sessMode = [rd |-> "none", wr |-> "none"]
    /\ writeSeq = 0
    /\ submitted = <<>>
    /\ uncaught = FALSE

\* The caller issues one call at a time.
Idle == pend = "none"

\* What the write calls made so far have submitted to the driver, by call number.
Submissions(c) ==
    [i \in 1..Cardinality({ k \in 1..Len(c.drv) :
                              c.drv[k].fn \in {"device.write", "endpointOut.transfer",
                                               "device.controlTransfer"} }) |-> c.seq]

-----------------------------------------------------------------------------
(* HID backend *)

\* The id the driver gives the next handle it constructs.
FreshHandle == CHOOSE h \in 1..MaxHandles : h \notin hidLive

\* if (!this.path.length)
PathNeverMissing(p) == FALSE

PathMissing(p) == p = ""

\* HID.open
HIDOpen ==
    /\ backend = "HID" /\ Idle
    /\ LET c == Snap(NewCall("open", NoData)) IN
       \/ /\ PathMissing(path)
          /\ call' = Reject(c, "No path specified")
          /\ UNCHANGED << hidVars, session >>
          /\ fixed' = FALSE
       \/ /\ ~PathMissing(path)
          /\ Cardinality(hidLive) < MaxHandles
          /\ \/ \* new Device(path) returns a handle
                /\ hidDevice' = FreshHandle
                /\ hidLive' = hidLive \cup {FreshHandle}
                /\ call' = Resolve(Issue(c, DrvCall("new Device")), NoView)
                /\ session' = "open"
                /\ fixed' = TRUE
             \/ \* new Device(path) throws
                \E ex \in Thrown :
                  /\ call' = Reject([Issue(c, DrvCall("new Device")) EXCEPT !.drvError = ex], ex)
                  /\ UNCHANGED << hidVars, session >>
                  /\ fixed' = FALSE
    /\ UNCHANGED << ctorVars, usbVars, pend, sessMode, writeSeq, submitted, uncaught >>

\* HID.close
HIDClose ==
    /\ backend = "HID" /\ Idle
    /\ LET c == Snap(NewCall("close", NoData)) IN
       \/ /\ hidDevice = 0
          /\ call' = Resolve(c, NoView)
          /\ UNCHANGED hidVars
       \/ /\ hidDevice # 0
          /\ \/ \* device.close() returns
                /\ hidLive' = hidLive \ {hidDevice}
                /\ hidDevice' = 0
                /\ call' = Resolve(Issue(c, DrvCall("device.close")), NoView)
             \/ \* device.close() throws: the executor's exception rejects the promise
                \E ex \in Thrown :
                  /\ call' = Reject([Issue(c, DrvCall("device.close")) EXCEPT !.drvError = ex], ex)
                  /\ UNCHANGED hidVars
    /\ session' = "closed"
    /\ fixed' = FALSE
    /\ UNCHANGED << ctorVars, usbVars, pend, sessMode, writeSeq, submitted, uncaught >>

\* HID.read, up to the driver call
HIDRead ==
    /\ backend = "HID" /\ Idle
    /\ LET c == NewCall("read", NoData) IN
       \/ /\ hidDevice = 0
          /\ call' = Reject(c, "TypeError")
          /\ pend' = "none"
       \/ /\ hidDevice # 0
          /\ call' = Issue(c, DrvCall("device.read"))
          /\ pend' = "device.read"
    /\ UNCHANGED << ctorVars, hidVars, usbVars, session, fixed, sessMode, writeSeq,
                    submitted, uncaught >>

\* HID.read, the driver's completion callback
HIDReadCallback ==
    /\ pend = "device.read"
    /\ \/ \E error \in Errors :
            call' = Reject([call EXCEPT !.drvError = error], error)
       \/ \E data \in ReadPackets :
            call' = Resolve([call EXCEPT !.returned = data], NumbersToDataView(data))
    /\ pend' = "none"
    /\ UNCHANGED << ctorVars, hidVars, usbVars, session, fixed, sessMode, writeSeq,
                    submitted, uncaught >>

\* HID.write
HIDWrite(data) ==
    /\ backend = "HID" /\ Idle
    /\ writeSeq < MaxWrites
    /\ writeSeq' = writeSeq + 1
    /\ LET c == [Snap(NewCall("write", data)) EXCEPT !.seq = writeSeq + 1]
           array == HIDFrame(data, os)
           w == Issue(c, [DrvCall("device.write") EXCEPT !.buf = array, !.length = Len(array)])
       IN
       \/ /\ hidDevice = 0
          /\ call' = Reject(c, "TypeError")
          /\ UNCHANGED submitted
       \/ /\ hidDevice # 0
          /\ submitted' = submitted \o Submissions(w)
          /\ \/ \* device.write(array) returns
                call' = Resolve(w, NoView)
             \/ \* device.write(array) throws
                \E ex \in Thrown : call' = Reject([w EXCEPT !.drvError = ex], ex)
    /\ UNCHANGED << ctorVars, hidVars, usbVars, pend, session, fixed, sessMode, uncaught >>

-----------------------------------------------------------------------------
(* USB backend *)

\* this.device.interfaces.filter(iface => iface.descriptor.bInterfaceClass === this.interfaceClass)
MatchingInterfaces(interfaces, class) ==
    SelectSeq(interfaces, LAMBDA i : i.bInterfaceClass = class)

\* this.interface.endpoints.forEach(...): every "in" endpoint is assigned to
\* endpointIn and every other endpoint to endpointOut, in declaration order.
AssignAllToEndpointIn(endpoints, k, sel) ==
    IF Len(endpoints) = 0 THEN sel
    ELSE [sel EXCEPT !.endpointIn = endpoints[Len(endpoints)]]

RECURSIVE AssignEndpoints(_, _, _)
AssignEndpoints(endpoints, k, sel) ==
    IF k > Len(endpoints) THEN sel
    ELSE AssignEndpoints(endpoints, k + 1,
            IF endpoints[k].direction = "in"
            THEN [sel EXCEPT !.endpointIn = endpoints[k]]
            ELSE [sel EXCEPT !.endpointOut = endpoints[k]])

\* if (this.endpointIn) ... else control transfer
AlwaysControl(endpoint) == "control"

TransferMode(endpoint) == IF endpoint.idx # 0 THEN "endpoint" ELSE "control"

\* USB.open, up to device.setConfiguration
USBOpen ==
    /\ backend = "USB" /\ Idle
    /\ endpointIn' = NullEp
    /\ endpointOut' = NullEp
    /\ fixed' = FALSE
    /\ LET c == Issue(NewCall("open", NoData), DrvCall("device.open")) IN
       \/ \* device.open() throws
          \E ex \in Thrown :
            /\ call' = Reject([c EXCEPT !.drvError = ex], ex)
            /\ pend' = "none"
            /\ UNCHANGED devOpen
       \/ \* device.open() returns
          /\ devOpen' = TRUE
          /\ call' = Issue(c, DrvCall("device.setConfiguration"))
          /\ pend' = "device.setConfiguration"
    /\ UNCHANGED << ctorVars, hidVars, iface, session, sessMode, writeSeq, submitted,
                    uncaught >>

\* USB.open, the callback of device.setConfiguration
USBOpenCallback ==
    /\ pend = "device.setConfiguration"
    /\ pend' = "none"
    /\ \/ \E error \in Errors :
            /\ call' = Reject([call EXCEPT !.drvError = error], error)
            /\ UNCHANGED << iface, endpointIn, endpointOut, session, fixed, sessMode,
                            uncaught >>
       \/ \E reported \in Devices :
            LET interfaces == MatchingInterfaces(reported, interfaceClass) IN
            IF Len(interfaces) = 0
            THEN \* throw new Error("No HID interfaces found.") inside the callback:
                 \* nothing catches it and neither resolve nor reject is invoked
                 /\ uncaught' = TRUE
                 /\ call' = [call EXCEPT !.matching = 0, !.reported = reported]
                 /\ UNCHANGED << iface, endpointIn, endpointOut, session, fixed, sessMode >>
            ELSE LET sel == AssignEndpoints(interfaces[1].endpoints, 1,
                                [endpointIn |-> endpointIn, endpointOut |-> endpointOut])
                 IN /\ iface' = interfaces[1]
                    /\ endpointIn' = sel.endpointIn
                    /\ endpointOut' = sel.endpointOut
                    /\ call' = Resolve([call EXCEPT !.matching = Len(interfaces),
                                                   !.reported = reported], NoView)
                    /\ session' = "open"
                    /\ fixed' = TRUE
                    /\ sessMode' = [rd |-> IF sel.endpointIn.idx # 0 THEN "endpoint" ELSE "control",
                                    wr |-> IF sel.endpointOut.idx # 0 THEN "endpoint" ELSE "control"]
                    /\ UNCHANGED uncaught
    /\ UNCHANGED << ctorVars, hidVars, devOpen, writeSeq, submitted >>

\* USB.close
USBClose ==
    /\ backend = "USB" /\ Idle
    /\ LET c == Issue(Snap(NewCall("close", NoData)), DrvCall("device.close")) IN
       \/ \* device.close() returns
          /\ devOpen' = FALSE
          /\ call' = Resolve(c, NoView)
       \/ \* device.close() throws: the executor's exception rejects the promise
          \E ex \in Thrown :
            /\ call' = Reject([c EXCEPT !.drvError = ex], ex)
            /\ UNCHANGED devOpen
    /\ session' = "closed"
    /\ fixed' = FALSE
    /\ UNCHANGED << ctorVars, hidVars, iface, endpointIn, endpointOut, pend, sessMode,
                    writeSeq, submitted, uncaught >>

\* USB.read, up to the driver call
USBRead ==
    /\ backend = "USB" /\ Idle
    /\ LET c == [NewCall("read", NoData) EXCEPT !.mode = TransferMode(endpointIn)] IN
       IF c.mode = "endpoint"
       THEN LET t == Issue(c, EndpointTransferIn(endpointIn)) IN
            \/ call' = t /\ pend' = "endpointIn.transfer"
            \/ \E ex \in Thrown :
                 call' = Reject([t EXCEPT !.drvError = ex], ex) /\ pend' = "none"
       ELSE IF iface = NullIface
       THEN \* this.interface is undefined
            call' = Reject(c, "TypeError") /\ pend' = "none"
       ELSE LET t == Issue(c, ControlTransferIn(iface)) IN
            \/ call' = t /\ pend' = "controlTransfer.in"
            \/ \E ex \in Thrown :
                 call' = Reject([t EXCEPT !.drvError = ex], ex) /\ pend' = "none"
    /\ UNCHANGED << ctorVars, hidVars, usbVars, session, fixed, sessMode, writeSeq,
                    submitted, uncaught >>

\* USB.read, the callback of the endpoint transfer or of the control transfer
USBReadCallback ==
    /\ pend \in {"endpointIn.transfer", "controlTransfer.in"}
    /\ pend' = "none"
    /\ \/ \E error \in Errors :
            call' = Reject([call EXCEPT !.drvError = error], error)
       \/ \E data \in ReadPackets :
            call' = Resolve([call EXCEPT !.returned = data], BufferToDataView(data))
    /\ UNCHANGED << ctorVars, hidVars, usbVars, session, fixed, sessMode, writeSeq,
                    submitted, uncaught >>

\* USB.write, up to the driver call
USBWrite(data) ==
    /\ backend = "USB" /\ Idle
    /\ writeSeq < MaxWrites
    /\ writeSeq' = writeSeq + 1
    /\ LET c == [Snap(NewCall("write", data)) EXCEPT !.seq = writeSeq + 1,
                                               !.mode = TransferMode(endpointOut)] IN
       IF c.mode = "endpoint"
       THEN LET packetSize == endpointOut.wMaxPacketSize
                buffer == SliceBuffer(data, packetSize)
                t == Issue(c, EndpointTransferOut(endpointOut, BufferSourceToBuffer(buffer)))
            IN  /\ submitted' = submitted \o Submissions(t)
                /\ \/ call' = t /\ pend' = "endpointOut.transfer"
                   \/ \E ex \in Thrown :
                        call' = Reject([t EXCEPT !.drvError = ex], ex) /\ pend' = "none"
       ELSE LET buffer == SliceBuffer(data, PACKET_SIZE) IN
            IF iface = NullIface
            THEN \* this.interface is undefined
                 call' = Reject(c, "TypeError") /\ pend' = "none" /\ UNCHANGED submitted
            ELSE LET t == Issue(c, ControlTransferOut(iface, BufferSourceToBuffer(buffer))) IN
                 /\ submitted' = submitted \o Submissions(t)
                 /\ \/ call' = t /\ pend' = "controlTransfer.out"
                    \/ \E ex \in Thrown :
                         call' = Reject([t EXCEPT !.drvError = ex], ex) /\ pend' = "none"
    /\ UNCHANGED << ctorVars, hidVars, usbVars, session, fixed, sessMode, uncaught >>

\* USB.write, the callback of the endpoint transfer or of the control transfer
USBWriteCallback ==
    /\ pend \in {"endpointOut.transfer", "controlTransfer.out"}
    /\ pend' = "none"
    /\ \/ \E error \in Errors :
            call' = Reject([call EXCEPT !.drvError = error], error)
       \/ call' = Resolve(call, NoView)
    /\ UNCHANGED << ctorVars, hidVars, usbVars, session, fixed, sessMode, writeSeq,
                    submitted, uncaught >>

-----------------------------------------------------------------------------
(* Specifications *)

\* Life cycle of one instance of either backend, any calls in any order.
Next ==
    \/ HIDOpen
    \/ HIDClose
    \/ HIDRead
    \/ HIDReadCallback
    \/ \E data \in CallPayloads : HIDWrite(data)
    \/ USBOpen
    \/ USBOpenCallback
    \/ USBClose
    \/ USBRead
    \/ USBReadCallback
    \/ \E data \in CallPayloads : USBWrite(data)
    \/ USBWriteCallback

Spec == Init /\ [][Next]_vars

\* Framing: one HID instance, written to with payloads of every length up to MaxLen.
InitFrame == Init /\ backend = "HID"

NextFrame ==
    \/ HIDOpen
    \/ HIDClose
    \/ \E data \in Payloads : writeSeq < MaxFrameWrites /\ HIDWrite(data)

SpecFrame == InitFrame /\ [][NextFrame]_vars

\* Slicing: one USB instance, written to with payloads of every length in FrameLengths.
InitSlice == Init /\ backend = "USB"

NextSlice ==
    \/ USBOpen
    \/ USBOpenCallback
    \/ \E data \in Payloads : writeSeq < MaxFrameWrites /\ USBWrite(data)
    \/ USBWriteCallback

SpecSlice == InitSlice /\ [][NextSlice]_vars

-----------------------------------------------------------------------------
(* Properties *)

\* The last call was a write that handed a buffer to the driver.
WriteSubmitted == call.op = "write" /\ Len(call.drv) > 0

\* The buffer the last driver call of the call carried.
WriteBuffer == call.drv[Len(call.drv)].buf

\* The write call found a device to write to: a HID handle, or a USB write
\* endpoint or interface.
WriteReached ==
    /\ call.op = "write"
    /\ IF backend = "HID" THEN call.pre.device # 0
       ELSE call.pre.endpointOut.idx # 0 \/ call.pre.interface # NullIface

\* The packet size in force for the USB write call.
ActivePacketSize ==
    IF call.pre.endpointOut.idx # 0 THEN call.pre.endpointOut.wMaxPacketSize
    ELSE PACKET_SIZE

\* C1: the buffer USB.write hands to the driver is the first min(n, P) bytes of
\* the n-byte payload, P being the active packet size: longer payloads are cut
\* to P bytes, shorter ones are sent whole and unpadded.
C1_UsbWriteSlicesToPacketSize ==
    (backend = "USB" /\ WriteSubmitted) =>
        LET payload == PayloadBytes(call.data)
        IN  WriteBuffer = SubSeq(payload, 1, Min(Len(payload), ActivePacketSize))

\* C2: off Windows, the buffer HID.write submits for a payload shorter than 64
\* bytes (an ArrayBuffer or any view) is 64 bytes long: the payload's bytes in
\* order, then zeros.
C2_HidWritePadsPayload ==
    (backend = "HID" /\ WriteSubmitted /\ os # "win32"
        /\ Len(PayloadBytes(call.data)) < PACKET_SIZE) =>
        LET payload == PayloadBytes(call.data)
        IN  /\ Len(WriteBuffer) = PACKET_SIZE
            /\ SubSeq(WriteBuffer, 1, Len(payload)) = payload
            /\ \A i \in (Len(payload) + 1)..Len(WriteBuffer) : WriteBuffer[i] = 0

\* C3: when configuration 1 was selected and no interface of the device has the
\* configured class, the result of USB.open is rejected, and never resolved.
C3_UsbOpenNoInterfaceRejects ==
    (backend = "USB" /\ call.op = "open" /\ call.matching = 0) =>
        call.result = "rejected"

\* C4: close on an instance that is already closed (never opened, or closed
\* before) issues no driver close call, succeeds and changes nothing; so two
\* closes in a row both succeed and leave the state of a single close.
C4_CloseWhenClosedIsNoOp ==
    (call.op = "close" /\ call.wasClosed) =>
        /\ call.drv = <<>>
        /\ call.result = "resolved"
        /\ Instance = call.pre

\* C5: whatever the driver's close does, raising included, the result of close
\* is resolved and the instance is closed afterwards.
C5_CloseAlwaysSucceeds ==
    (call.op = "close") =>
        /\ call.result = "resolved"
        /\ IF backend = "HID" THEN hidDevice = 0 ELSE ~devOpen

C7_SettledExactlyOnce ==
    /\ (call.op # "none" /\ pend = "none") =>
          (call.result # "pending" /\ call.settles = 1)
    /\ (pend # "none") => (call.result = "pending" /\ call.settles = 0)

\* C8: when the driver reports an error for a read or a write transfer, the
\* call is rejected with exactly that error value, is not resolved, and the
\* transport has made no second driver call.
C8_DriverErrorSurfacedUnchanged ==
    (call.op \in {"read", "write"} /\ call.drvError # NoError) =>
        /\ call.result = "rejected"
        /\ call.error = call.drvError
        /\ Len(call.drv) = 1

\* A USB write whose transfer the driver completed with an error.
C8_Witness ==
    /\ backend = "USB" /\ call.op = "write" /\ call.drvError = "LIBUSB_TRANSFER_STALL"
    /\ call.result = "rejected"

\* C9: every write call that reaches the driver makes exactly one driver
\* submission, carrying the framing of that call's payload alone; a write that
\* does not reach it makes none; so the driver sees the writes once each, in
\* call order.
C9_OnePacketPerWrite ==
    /\ \A i \in 1..Len(submitted) :
          /\ submitted[i] \in 1..writeSeq
          /\ i > 1 => submitted[i - 1] < submitted[i]
    /\ (call.op = "write") =>
          LET mine == { i \in 1..Len(submitted) : submitted[i] = call.seq } IN
          IF WriteReached
          THEN /\ Len(call.drv) = 1
               /\ mine = {Len(submitted)}
               /\ WriteBuffer =
                    (IF backend = "HID" THEN HIDFrame(call.data, os)
                     ELSE BufferSourceToBuffer(SliceBuffer(call.data, ActivePacketSize)))
          ELSE call.drv = <<>> /\ mine = {}

\* Two writes in a row, both submitted.
C9_Witness ==
    /\ call.op = "write" /\ call.seq = 2 /\ submitted = <<1, 2>>
    /\ call.result = "resolved"

\* C10: for every payload, the buffer HID.write submits on "win32" is one byte
\* longer than the one submitted for it on any other platform, starts with a
\* zero byte and continues with that other buffer.
C10_WindowsPrependsZeroByte ==
    (backend = "HID" /\ WriteSubmitted /\ os = "win32") =>
        \A other \in Platforms \ {"win32"} :
            LET elsewhere == HIDFrame(call.data, other) IN
            /\ Len(WriteBuffer) = Len(elsewhere) + 1
            /\ WriteBuffer[1] = 0
            /\ Tail(WriteBuffer) = elsewhere

\* A Windows write of a view shorter than a packet.
C10_Witness ==
    /\ backend = "HID" /\ WriteSubmitted /\ os = "win32"
    /\ call.data.isView /\ Len(call.data.buffer) = MaxShort
    /\ Len(WriteBuffer) = PACKET_SIZE + 1
    /\ call.result = "resolved"

\* C11: a read or write called while the session is closed (before the first
\* resolved open, or after a close and before the next resolved open) issues no
\* driver call and its result is rejected.
C11_NoTransferWhileClosed ==
    (call.op \in {"read", "write"} /\ call.wasClosed) =>
        /\ call.drv = <<>>
        /\ call.result = "rejected"

\* C12: after a USB close has completed, the instance holds no cached read
\* endpoint, write endpoint or interface of the session just closed.
C12_UsbCloseDiscardsSessionState ==
    (backend = "USB" /\ call.op = "close" /\ call.result = "resolved") =>
        /\ iface = NullIface
        /\ endpointIn = NullEp
        /\ endpointOut = NullEp

\* The first element of a sequence that satisfies Test, or `none`.
FirstWhere(seq, Test(_), none) ==
    LET hits == { k \in 1..Len(seq) : Test(seq[k]) }
    IN  IF hits = {} THEN none
        ELSE seq[CHOOSE k \in hits : \A j \in hits : k <= j]

\* A USB open has just resolved.
UsbOpenResolved == backend = "USB" /\ call.op = "open" /\ call.result = "resolved"

\* C13, the interface: after a successful open the interface in use is the
\* first reported one, in declaration order, whose class is the configured class.
C13_FirstMatchingInterface ==
    UsbOpenResolved =>
        iface = FirstWhere(call.reported,
                           LAMBDA i : i.bInterfaceClass = interfaceClass, NullIface)

\* C13: after a successful open the interface in use is the first reported one
\* of the configured class, the read endpoint is that interface's first "in"
\* endpoint and the write endpoint is its first "out" endpoint.
C13_FirstInterfaceFirstEndpoints ==
    UsbOpenResolved =>
        /\ iface = FirstWhere(call.reported,
                              LAMBDA i : i.bInterfaceClass = interfaceClass, NullIface)
        /\ endpointIn = FirstWhere(iface.endpoints, LAMBDA e : e.direction = "in", NullEp)
        /\ endpointOut = FirstWhere(iface.endpoints, LAMBDA e : e.direction = "out", NullEp)

\* C14: with an empty path HID.open is rejected without constructing a device
\* handle and leaves the handle and the open/closed state as they were; with a
\* non-empty path, a construction failure rejects open with the driver's
\* exception and attaches no handle.
C14_HidOpenFailuresLeaveInstance ==
    (backend = "HID" /\ call.op = "open") =>
        /\ (path = "") =>
              /\ call.result = "rejected"
              /\ call.drv = <<>>
              /\ hidDevice = call.pre.device
              /\ (session = "closed") = call.wasClosed
        /\ (path # "" /\ call.drvError # NoError) =>
              /\ call.result = "rejected"
              /\ call.error = call.drvError
              /\ hidDevice = call.pre.device

\* An open with an empty path, made after other calls.
C14_Witness ==
    /\ backend = "HID" /\ path = "" /\ call.op = "open" /\ call.result = "rejected"
    /\ writeSeq > 0

\* C15: in a session opened on an interface without endpoints, every read makes
\* exactly one control transfer, with request type IN | class | interface
\* (0xA1), request GET_REPORT (0x01), value 0x0100, index the selected
\* interface's number and length 64, and resolves with the bytes the driver
\* returns.
C15_ControlModeReadFraming ==
    (backend = "USB" /\ call.op = "read" /\ ~call.wasClosed /\ iface.endpoints = <<>>) =>
        /\ Len(call.drv) = 1
        /\ call.drv[1].fn = "device.controlTransfer"
        /\ call.drv[1].bmRequestType = 161
        /\ call.drv[1].bRequest = 1
        /\ call.drv[1].wValue = 256
        /\ call.drv[1].wIndex = iface.interface
        /\ call.drv[1].length = 64
        /\ (pend = "none" /\ call.drvError = NoError) =>
              /\ call.result = "resolved"
              /\ call.view.bytes = call.returned
              /\ call.view.byteLength = Len(call.returned)

\* A control-mode read on the device's second interface that returned a full packet.
C15_Witness ==
    /\ backend = "USB" /\ call.op = "read" /\ ~call.wasClosed /\ iface.endpoints = <<>>
    /\ iface.interface = 1
    /\ call.result = "resolved" /\ Len(call.returned) = PACKET_SIZE

\* C16, as stated: in an open USB session the read endpoint and the write
\* endpoint are both set or both unset.
C16_SingleModePerSession ==
    (backend = "USB" /\ fixed) =>
        ((endpointIn.idx # 0) <=> (endpointOut.idx # 0))

\* C16, amended: in an open USB session the read endpoint is set exactly when
\* the interface in use declares an "in" endpoint, and the write endpoint
\* exactly when it declares an endpoint of another direction.
C16_ModePerDirection ==
    (backend = "USB" /\ fixed) =>
        /\ (endpointIn.idx # 0) <=>
              (\E k \in 1..Len(iface.endpoints) : iface.endpoints[k].direction = "in")
        /\ (endpointOut.idx # 0) <=>
              (\E k \in 1..Len(iface.endpoints) : iface.endpoints[k].direction # "in")

\* A session on an interface that declares only "in" endpoints, after a read
\* by endpoint transfer.
C16_Witness ==
    /\ backend = "USB" /\ fixed
    /\ Len(iface.endpoints) = 2 /\ endpointIn.idx # 0 /\ endpointOut.idx = 0
    /\ call.op = "read" /\ call.mode = "endpoint" /\ call.result = "resolved"

\* C17: when USB.open has ended without success after device.open() returned
\* (setConfiguration reported an error, or no interface matched the class),
\* the device handle is not open and no interface or endpoint is held.
C17_FailedUsbOpenLeavesClosed ==
    (/\ backend = "USB" /\ call.op = "open" /\ pend = "none"
     /\ Len(call.drv) = 2 /\ call.result # "resolved") =>
        /\ ~devOpen
        /\ iface = NullIface
        /\ endpointIn = NullEp
        /\ endpointOut = NullEp

\* C18: on a HID instance at most one driver handle is constructed and not
\* yet closed.
C18_AtMostOneLiveHidHandle ==
    backend = "HID" => Cardinality(hidLive) <= 1

====
